---- MODULE Spec2Model ----
(***************************************************************************)
(* Model of src/app.py, the Streamlit "Stock Data Fetcher".                *)
(*                                                                         *)
(* Streamlit re-runs the whole script on every user interaction; the only  *)
(* state that survives a run is st.session_state.search_history.  One      *)
(* action of the model is one run of the script for one page of the menu.  *)
(* What the run put on the page is kept in `rendered`, the provider's      *)
(* answers of the run in `info` and `hist`.                                *)
(*                                                                         *)
(* Representation:                                                         *)
(*  - a ticker is the text after .upper().strip(); 0 is the empty text and *)
(*    1..NumTickers are the non-empty symbols, numbered in the order the   *)
(*    session first uses them (symbols are interchangeable);               *)
(*  - a value of the info dict is a record: Absent (no such key), None,    *)
(*    Num(n) or Str.  Prices and the P/E are held in hundredths, volume in *)
(*    units, the market cap as two base-10^6 limbs (hi * 10^6 + lo), which *)
(*    keeps 10^12 inside the 32-bit integers of TLC;                       *)
(*  - a formatted string is a record naming its format specification and   *)
(*    the number it shows, in hundredths where the format is .2f.          *)
(***************************************************************************)
EXTENDS Integers, Sequences, FiniteSets, TLC

\* Bounds of the model.
NumTickers == 11
MaxLookups == 13
MaxOverrides == 2

\* Capacity of the search history (the literal 10 of the script).
MaxHistory == 10

VARIABLES search_history, ticker, info, hist, outcome, rendered, lookups, seen

vars == <<search_history, ticker, info, hist, outcome, rendered, lookups, seen>>

Range(s) == {s[i] : i \in 1..Len(s)}

Min(a, b) == IF a < b THEN a ELSE b

Max(a, b) == IF a < b THEN b ELSE a

(***************************************************************************)
(* Values of the provider's info dict                                      *)
(***************************************************************************)
Absent == [k |-> "absent"]

None == [k |-> "None"]

Num(n) == [k |-> "num", n |-> n]

Str == [k |-> "str"]

Limb == 1000000

Cap(hi, lo) == [k |-> "num", hi |-> hi, lo |-> lo]

PriceFields == {"currentPrice", "previousClose", "open", "dayHigh", "dayLow",
                "fiftyTwoWeekHigh", "fiftyTwoWeekLow"}

TextFields == {"sector", "industry", "country", "website", "longName"}

Fields == PriceFields \cup TextFields \cup {"volume", "marketCap", "trailingPE"}

Periods == {"1d", "5d", "1mo", "3mo", "6mo", "1y", "2y", "5y"}

\* info.get(f, default)
Get(d, f, default) == IF d[f] = Absent THEN default ELSE d[f]

\* Python truthiness of a value
Truthy(v) ==
    CASE v.k = "num" -> (IF "hi" \in DOMAIN v THEN v.hi # 0 \/ v.lo # 0 ELSE v.n # 0)
      [] v.k = "str" -> TRUE
      [] OTHER -> FALSE

IsNumber(v) == v.k = "num"

(***************************************************************************)
(* Formatted strings                                                       *)
(***************************************************************************)
NA == [fmt |-> "N/A"]

NoDelta == [fmt |-> "None"]

\* a / b rounded to the nearest integer, b > 0 (an exact half goes to even)
RoundDiv(a, b) ==
    LET q == a \div b
        r == a % b
    IN  IF 2 * r > b \/ (2 * r = b /\ q % 2 = 1) THEN q + 1 ELSE q

\* f"${x:,.2f}"
Currency(cents) == [fmt |-> "$,.2f", cents |-> cents]

\* f"${x:.2f}"
Dollar2(cents) == [fmt |-> "$.2f", cents |-> cents]

\* f"{x:.2f}"
Fixed2(cents) == [fmt |-> ".2f", cents |-> cents]

\* f"{n:,}"
Grouped(n) == [fmt |-> ",", n |-> n]

\* f"${x:.2f}T", f"${x:.2f}B", f"${x:.2f}M"
Suffixed(cents, suffix) == [fmt |-> "$.2f", cents |-> cents, suffix |-> suffix]

\* f"${n:,.0f}"
Whole(n) == [fmt |-> "$,.0f", n |-> n]

\* f"{change:+.2f} ({change_percent:+.2f}%)"
DeltaStr(change, pct) == [fmt |-> "+.2f (+.2f%)", change |-> change, pct |-> pct]

\* f"{v}" of a text value: the string itself, or "None"
Verbatim(v) == [fmt |-> "{}", v |-> v]

\* f"[{website}]({website})"
Link(v) == [fmt |-> "[{}]({})", v |-> v]

(***************************************************************************)
(* Page elements                                                           *)
(***************************************************************************)
Header(label) == [el |-> "header", label |-> label]

Markdown(label) == [el |-> "markdown", label |-> label]

Title(name, t) == [el |-> "title", name |-> name, ticker |-> t]

Metric(label, value, delta) ==
    [el |-> "metric", label |-> label, value |-> value, delta |-> delta]

Subheader(label) == [el |-> "subheader", label |-> label]

Write(label, value) == [el |-> "write", label |-> label, value |-> value]

ErrorMsg(label) == [el |-> "error", label |-> label]

InfoMsg(label) == [el |-> "info", label |-> label]

NotFoundMsg == "Unable to fetch data for ticker"

FailureMsg == "An error occurred"

\* Elements that are not part of a quote: page header, error and hint.
Chrome == {"header", "error", "info"}

(***************************************************************************)
(* The statements of the else-branch.  Each gives the elements it put on   *)
(* the page and whether it raised; an element already on the page stays    *)
(* there when a later expression raises.                                   *)
(***************************************************************************)
Ok(out) == [raised |-> FALSE, out |-> out]

Raises(out) == [raised |-> TRUE, out |-> out]

RECURSIVE Run(_)
Run(stmts) ==
    IF stmts = <<>> THEN Ok(<<>>)
    ELSE LET s == Head(stmts)
         IN  IF s.raised THEN s
             ELSE LET r == Run(Tail(stmts))
                  IN  [raised |-> r.raised, out |-> s.out \o r.out]

CompanyHeader(t, d) ==
    Ok(<<Title(Get(d, "longName", [k |-> "ticker"]), t)>>)

PriceMetric(d) ==
    LET current_price == Get(d, "currentPrice", Num(0))
        previous_close == Get(d, "previousClose", Num(0))
    IN  IF ~IsNumber(current_price) \/ ~IsNumber(previous_close)
        THEN Raises(<<>>)
        ELSE LET change == current_price.n - previous_close.n
                 change_percent == IF Truthy(previous_close)
                                   THEN RoundDiv(change * 10000, previous_close.n)
                                   ELSE 0
             IN  Ok(<<Metric("Current Price",
                             IF Truthy(current_price)
                             THEN Currency(current_price.n) ELSE NA,
                             IF change # 0
                             THEN DeltaStr(change, change_percent) ELSE NoDelta)>>)

VolumeMetric(d) ==
    LET volume == Get(d, "volume", Num(0))
    IN  Ok(<<Metric("Volume",
                    IF Truthy(volume) THEN Grouped(volume.n) ELSE NA,
                    NoDelta)>>)

\* market_cap / 1e12, / 1e9, / 1e6 in hundredths, on the two limbs
CapOver1e12(m) ==
    LET q == m.hi \div 10000
        rh == m.hi % 10000
    IN  IF rh > 5000 \/ (rh = 5000 /\ m.lo > 0) \/ (rh = 5000 /\ m.lo = 0 /\ q % 2 = 1)
        THEN q + 1 ELSE q

CapOver1e9(m) == RoundDiv((m.hi % 10) * Limb + m.lo, 10 * Limb) + m.hi \div 10

CapOver1e6(m) == m.hi * 100 + RoundDiv(m.lo, 10000)

\* CapStr with > in place of >=
CapStr_Strict(market_cap) ==
    IF market_cap.hi > Limb \/ (market_cap.hi = Limb /\ market_cap.lo > 0)
    THEN Suffixed(CapOver1e12(market_cap), "T")
    ELSE IF market_cap.hi > 1000 \/ (market_cap.hi = 1000 /\ market_cap.lo > 0)
    THEN Suffixed(CapOver1e9(market_cap), "B")
    ELSE IF market_cap.hi > 1 \/ (market_cap.hi = 1 /\ market_cap.lo > 0)
    THEN Suffixed(CapOver1e6(market_cap), "M")
    ELSE IF market_cap.hi = 0 THEN Whole(market_cap.lo)
    ELSE Whole(Limb)

CapStr(market_cap) ==
    IF market_cap.hi >= Limb THEN Suffixed(CapOver1e12(market_cap), "T")
    ELSE IF market_cap.hi >= 1000 THEN Suffixed(CapOver1e9(market_cap), "B")
    ELSE IF market_cap.hi >= 1 THEN Suffixed(CapOver1e6(market_cap), "M")
    ELSE Whole(market_cap.lo)

MarketCapMetric(d) ==
    LET market_cap == Get(d, "marketCap", Cap(0, 0))
    IN  Ok(<<Metric("Market Cap",
                    IF Truthy(market_cap) THEN CapStr(market_cap) ELSE NA,
                    NoDelta)>>)

PEMetric(d) ==
    LET pe_ratio == Get(d, "trailingPE", Num(0))
    IN  Ok(<<Metric("P/E Ratio",
                    IF Truthy(pe_ratio) THEN Fixed2(pe_ratio.n) ELSE NA,
                    NoDelta)>>)

\* st.write(f"**Open:** ${info.get('open', 0):.2f}") and its four siblings
TradingLine(d, f, label) ==
    LET v == Get(d, f, Num(0))
    IN  IF IsNumber(v) THEN Ok(<<Write(label, Dollar2(v.n))>>) ELSE Raises(<<>>)

TradingLabel ==
    [open |-> "Open", dayHigh |-> "Day High", dayLow |-> "Day Low",
     fiftyTwoWeekHigh |-> "52 Week High", fiftyTwoWeekLow |-> "52 Week Low"]

TradingInformation(d) ==
    Run(<<Ok(<<Subheader("Trading Information")>>),
          TradingLine(d, "open", TradingLabel["open"]),
          TradingLine(d, "dayHigh", TradingLabel["dayHigh"]),
          TradingLine(d, "dayLow", TradingLabel["dayLow"]),
          TradingLine(d, "fiftyTwoWeekHigh", TradingLabel["fiftyTwoWeekHigh"]),
          TradingLine(d, "fiftyTwoWeekLow", TradingLabel["fiftyTwoWeekLow"])>>)

TextLine(d, f, label) ==
    Write(label, IF d[f] = Absent THEN NA ELSE Verbatim(d[f]))

CompanyInformation(d) ==
    Ok(<<Subheader("Company Information"),
         TextLine(d, "sector", "Sector"),
         TextLine(d, "industry", "Industry"),
         TextLine(d, "country", "Country"),
         Write("Website", IF d["website"] = Absent THEN NA ELSE Link(d["website"]))>>)

PriceChart(t, h, p) ==
    IF h = "rows"
    THEN Ok(<<[el |-> "subheader", label |-> "Price Chart", period |-> p],
              [el |-> "plotly_chart", name |-> t],
              Subheader("Historical Data"),
              [el |-> "dataframe"],
              [el |-> "download_button", ticker |-> t, period |-> p]>>)
    ELSE Ok(<<>>)

RenderQuote(t, d, h, p) ==
    Run(<<CompanyHeader(t, d),
          PriceMetric(d), VolumeMetric(d), MarketCapMetric(d), PEMetric(d),
          Ok(<<Markdown("---")>>),
          TradingInformation(d), CompanyInformation(d),
          Ok(<<Markdown("---")>>),
          PriceChart(t, h, p)>>)

(***************************************************************************)
(* The provider                                                            *)
(***************************************************************************)
Unset == [k |-> "unset"]

InfoRaises == [k |-> "raise"]

Dict(d) == [k |-> "dict", d |-> d]

\* `not info`: None or the empty dict
Falsy(i) == i = None \/ (i.k = "dict" /\ \A f \in Fields : i.d[f] = Absent)

HasCurrentPrice(i) == i.k = "dict" /\ i.d["currentPrice"] # Absent

\* TryBlock without the 'currentPrice' not in info test
TryBlock_OnlyFalsy(t, i, h, p) ==
    IF i.k = "raise" \/ h = "raise"
    THEN [outcome |-> "ProviderFailure",
          out |-> <<ErrorMsg(FailureMsg), InfoMsg("try a different ticker")>>]
    ELSE IF Falsy(i)
    THEN [outcome |-> "NotFound",
          out |-> <<ErrorMsg(NotFoundMsg), InfoMsg("Tips")>>]
    ELSE LET r == RenderQuote(t, i.d, h, p)
         IN  IF r.raised
             THEN [outcome |-> "ProviderFailure",
                   out |-> r.out \o <<ErrorMsg(FailureMsg),
                                      InfoMsg("try a different ticker")>>]
             ELSE [outcome |-> "Success", out |-> r.out]

\* The try block: fetch, then the NotFound message or the quote; the
\* except clause adds the failure message to whatever is on the page.
TryBlock(t, i, h, p) ==
    IF i.k = "raise" \/ h = "raise"
    THEN [outcome |-> "ProviderFailure",
          out |-> <<ErrorMsg(FailureMsg), InfoMsg("try a different ticker")>>]
    ELSE IF Falsy(i) \/ ~HasCurrentPrice(i)
    THEN [outcome |-> "NotFound",
          out |-> <<ErrorMsg(NotFoundMsg), InfoMsg("Tips")>>]
    ELSE LET r == RenderQuote(t, i.d, h, p)
         IN  IF r.raised
             THEN [outcome |-> "ProviderFailure",
                   out |-> r.out \o <<ErrorMsg(FailureMsg),
                                      InfoMsg("try a different ticker")>>]
             ELSE [outcome |-> "Success", out |-> r.out]

(***************************************************************************)
(* The search history                                                      *)
(***************************************************************************)
\* HistoryUpdate without the truncation
HistoryUpdate_NoTruncate(h, t) ==
    IF t # 0 /\ t \notin Range(h) THEN <<t>> \o h ELSE h

\* HistoryUpdate with append in place of insert(0, ...)
HistoryUpdate_Append(h, t) ==
    IF t # 0 /\ t \notin Range(h)
    THEN LET ins == h \o <<t>>
         IN  IF Len(ins) > MaxHistory THEN SubSeq(ins, 1, MaxHistory) ELSE ins
    ELSE h

\* HistoryUpdate that moves a ticker already present to the front
HistoryUpdate_Promote(h, t) ==
    IF t # 0
    THEN LET ins == <<t>> \o SelectSeq(h, LAMBDA x : x # t)
         IN  IF Len(ins) > MaxHistory THEN SubSeq(ins, 1, MaxHistory) ELSE ins
    ELSE h

\* search_history.insert(0, ticker); truncate to the first 10
HistoryUpdate(h, t) ==
    IF t # 0 /\ t \notin Range(h)
    THEN LET ins == <<t>> \o h
         IN  IF Len(ins) > MaxHistory THEN SubSeq(ins, 1, MaxHistory) ELSE ins
    ELSE h

(***************************************************************************)
(* Provider answers the model draws from                                   *)
(***************************************************************************)
Prices == {Absent, None, Num(0), Num(10000), Num(15000)}

MarketCaps ==
    {Absent, None, Cap(0, 0), Cap(0, 1), Cap(0, 999999), Cap(1, 0), Cap(1, 1),
     Cap(850, 0), Cap(999, 999999), Cap(1000, 0), Cap(1000, 1),
     Cap(999999, 999999), Cap(1000000, 0), Cap(1000000, 1), Cap(2500000, 0)}

Vals(f) ==
    CASE f \in PriceFields -> Prices
      [] f \in TextFields -> {Absent, None, Str}
      [] f = "volume" -> {Absent, None, Num(0), Num(1234567)}
      [] f = "marketCap" -> MarketCaps
      [] f = "trailingPE" -> {Absent, None, Num(0), Num(2857)}

FullSnapshot ==
    [currentPrice |-> Num(15000), previousClose |-> Num(10000),
     volume |-> Num(1234567), marketCap |-> Cap(2500000, 0),
     trailingPE |-> Num(2857), open |-> Num(10000), dayHigh |-> Num(15000),
     dayLow |-> Num(10000), fiftyTwoWeekHigh |-> Num(15000),
     fiftyTwoWeekLow |-> Num(10000), sector |-> Str, industry |-> Str,
     country |-> Str, website |-> Str, longName |-> Str]

BareSnapshot == [f \in Fields |-> IF f = "currentPrice" THEN Num(15000) ELSE Absent]

EmptySnapshot == [f \in Fields |-> Absent]

\* one field of a snapshot set to one of its values
Overrides == UNION {{<<f, v>> : v \in Vals(f)} : f \in Fields}

\* the snapshot s with the overrides o[a], ..., o[Len(o)] applied
RECURSIVE Apply(_, _, _)
Apply(s, o, a) ==
    IF a > Len(o) THEN s
    ELSE Apply([s EXCEPT ![o[a][1]] = o[a][2]], o, a + 1)

\* the answers and periods used while the history is exercised
SessionInfos ==
    {InfoRaises, Dict(EmptySnapshot), Dict(FullSnapshot),
     Dict([FullSnapshot EXCEPT !["open"] = None])}

SessionPeriods == {"1d", "1mo"}

\* stock.history(period) is only called when stock.info returned
HistAnswers(i) == IF i.k = "raise" THEN {"unset"} ELSE {"rows", "empty", "raise"}

(***************************************************************************)
(* The session                                                             *)
(***************************************************************************)
Init ==
    /\ search_history = <<>>
    /\ ticker = 0
    /\ info = Unset
    /\ hist = "unset"
    /\ outcome = "none"
    /\ rendered = <<>>
    /\ lookups = 0
    /\ seen = 0

\* One run of the script with the menu on "Search Stocks".
SearchStocks(t, fetch_button, p, i, h) ==
    IF fetch_button \/ t # 0
    THEN /\ lookups < MaxLookups
         /\ search_history' = HistoryUpdate(search_history, t)
         /\ LET r == TryBlock(t, i, h, p)
            IN  /\ outcome' = r.outcome
                /\ rendered' = <<Header("Search Stock Data")>> \o r.out
         /\ ticker' = t
         /\ info' = i
         /\ hist' = h
         /\ lookups' = lookups + 1
         /\ seen' = Max(seen, t)
    ELSE /\ ticker' = t
         /\ info' = Unset
         /\ hist' = "unset"
         /\ outcome' = "none"
         /\ rendered' = <<Header("Search Stock Data")>>
         /\ UNCHANGED <<search_history, lookups, seen>>

\* One run of the script with the menu on "Ticker Guide".
TickerGuide ==
    /\ ticker' = 0
    /\ info' = Unset
    /\ hist' = "unset"
    /\ outcome' = "none"
    /\ rendered' = <<Header("Ticker Symbol Guide")>>
    /\ UNCHANGED <<search_history, lookups, seen>>

Next ==
    \/ \E t \in 0..Min(seen + 1, NumTickers), fetch_button \in BOOLEAN,
          p \in SessionPeriods, i \in SessionInfos :
          \E h \in HistAnswers(i) : SearchStocks(t, fetch_button, p, i, h)
    \/ TickerGuide

Spec == Init /\ [][Next]_vars

(***************************************************************************)
(* The formatter on its own: the provider has answered the first lookup of *)
(* a session, and the try block turns the answer into the page.  The       *)
(* answers are the snapshots that differ from FullSnapshot or from         *)
(* BareSnapshot in at most MaxOverrides fields.                            *)
(***************************************************************************)
FormatInit ==
    /\ search_history = <<1>>
    /\ ticker = 1
    /\ \/ info \in {InfoRaises, None}
       \/ \E base \in {FullSnapshot, BareSnapshot},
             o \in [1..MaxOverrides -> Overrides] : info = Dict(Apply(base, o, 1))
    /\ hist \in HistAnswers(info)
    /\ outcome = "pending"
    /\ rendered = <<Header("Search Stock Data")>>
    /\ lookups = 1
    /\ seen = 1

Format(p) ==
    /\ outcome = "pending"
    /\ LET r == TryBlock(ticker, info, hist, p)
       IN  /\ outcome' = r.outcome
           /\ rendered' = rendered \o r.out
    /\ UNCHANGED <<search_history, ticker, info, hist, lookups, seen>>

FormatNext == \E p \in Periods : Format(p)

FormatSpec == FormatInit /\ [][FormatNext]_vars

(***************************************************************************)
(* Properties                                                              *)
(***************************************************************************)
LookupRan == outcome \in {"Success", "NotFound", "ProviderFailure"}

NoDuplicates(h) == \A a, b \in 1..Len(h) : a # b => h[a] # h[b]

\* the snapshot of the run lacks a current-price field
LacksCurrentPrice ==
    info = None \/ (info.k = "dict" /\ info.d["currentPrice"] = Absent)

\* the metric with the given label, if the run put one on the page
Metrics(label) == {e \in Range(rendered) : e.el = "metric" /\ e.label = label}

Writes(label) == {e \in Range(rendered) : e.el = "write" /\ e.label = label}

ZeroOrAbsent(f) == info.k = "dict" /\ info.d[f] \in {Absent, Num(0)}

\* C1: after any sequence of lookups the search history has at most 10
\* entries and holds no ticker twice.
C1_BoundedNoDuplicates ==
    Len(search_history) <= 10 /\ NoDuplicates(search_history)

\* An eleventh symbol has been looked up and the oldest one has fallen out.
C1_Witness ==
    Len(search_history) = 10 /\ seen = 11 /\ 1 \notin Range(search_history)

\* C2 as stated: right after a successful lookup of a ticker t, t is at
\* index 0 of the search history, whatever the history held before.
C2_Original ==
    (outcome = "Success" /\ ticker # 0)
        => (search_history # <<>> /\ search_history[1] = ticker)

\* C2 as amended: right after a successful lookup of a ticker t that was not
\* in the search history before the lookup, t is at index 0 of the history.
C2_NewTickerAtFront ==
    [][(lookups' = lookups + 1 /\ outcome' = "Success" /\ ticker' # 0
           /\ ticker' \notin Range(search_history))
        => (search_history' # <<>> /\ search_history'[1] = ticker')]_vars

\* Eleven lookups, each of a symbol never used before, the last one
\* successful: the last symbol sits in front of the ten before it.
C2_Witness ==
    /\ outcome = "Success"
    /\ lookups = 11 /\ seen = 11 /\ ticker = 11
    /\ search_history[1] = 11 /\ search_history[2] = 10

\* C3: looking up a ticker that is already in the search history leaves the
\* history exactly as it was (same length, entries and order).
C3_PresentTickerNoChange ==
    [][(lookups' = lookups + 1 /\ ticker' \in Range(search_history))
        => search_history' = search_history]_vars

\* A lookup of a symbol that is in the history behind another one: it was
\* present before the lookup and has not moved to the front.
C3_Witness ==
    /\ LookupRan
    /\ Len(search_history) >= 2
    /\ \E a \in 2..Len(search_history) : search_history[a] = ticker

\* C4 as stated: the search history changes only in a run whose lookup
\* succeeds; a NotFound or ProviderFailure lookup leaves it unchanged.
C4_OnlySuccessMutates ==
    [][search_history' # search_history => outcome' = "Success"]_vars

\* C5 as stated: a snapshot without a current-price field ends the lookup in
\* NotFound, also when the historical-series call of the lookup fails.
C5_Original ==
    (LookupRan /\ LacksCurrentPrice) => outcome = "NotFound"

\* C5 as amended: a snapshot without a current-price field ends the lookup
\* in NotFound when the historical-series call returns, and in
\* ProviderFailure when the historical-series call raises.
C5_NotFoundUnlessHistoryRaises ==
    (LookupRan /\ LacksCurrentPrice)
        => outcome = (IF hist = "raise" THEN "ProviderFailure" ELSE "NotFound")

\* A snapshot that has other fields but no current price, history returned.
C5_Witness ==
    /\ outcome = "NotFound"
    /\ info.k = "dict"
    /\ info.d["currentPrice"] = Absent
    /\ info.d["previousClose"] = Num(10000)
    /\ hist = "rows"

\* C6 as stated: for every snapshot with a current-price field, whatever the
\* fields hold (absent, None, zero, positive), formatting does not raise.
C6_FormattingTotal ==
    (LookupRan /\ info.k = "dict" /\ info.d["currentPrice"] # Absent
        /\ hist # "raise") => outcome = "Success"

\* C7 as stated: when the previous close is zero or absent the price metric
\* carries no delta.
C7_NoDeltaWithoutPreviousClose ==
    ZeroOrAbsent("previousClose")
        => \A e \in Metrics("Current Price") : e.delta = NoDelta

\* C8 as stated: every price field that is zero or absent is shown as N/A.
C8_ZeroPriceIsNA ==
    /\ ZeroOrAbsent("currentPrice")
           => \A e \in Metrics("Current Price") : e.value = NA
    /\ \A f \in DOMAIN TradingLabel :
           ZeroOrAbsent(f) => \A e \in Writes(TradingLabel[f]) : e.value = NA

\* the number c of hundredths is m / 10^12 (10^9, 10^6) to the nearest
NearOver1e12(m, c) ==
    LET d == m.hi - c * 10000
    IN  d >= -5000 /\ (d < 5000 \/ (d = 5000 /\ m.lo = 0))

NearOver1e9(m, c) ==
    LET d == m.hi - c * 10
    IN  d >= -5 /\ (d < 5 \/ (d = 5 /\ m.lo = 0))

NearOver1e6(m, c) ==
    LET d == m.hi * 1000000 + m.lo - c * 10000
    IN  d >= -5000 /\ d <= 5000

CapAsClaimed(m, v) ==
    IF m \in {Absent, Cap(0, 0)} THEN v = NA
    ELSE IF m.hi >= 1000000
    THEN v.fmt = "$.2f" /\ v.suffix = "T" /\ NearOver1e12(m, v.cents)
    ELSE IF m.hi >= 1000
    THEN v.fmt = "$.2f" /\ v.suffix = "B" /\ NearOver1e9(m, v.cents)
    ELSE IF m.hi >= 1
    THEN v.fmt = "$.2f" /\ v.suffix = "M" /\ NearOver1e6(m, v.cents)
    ELSE v = [fmt |-> "$,.0f", n |-> m.lo]

\* C9: the market cap is shown as N/A when zero or absent, as m/10^12 with
\* suffix T from 10^12 up, else as m/10^9 with suffix B from 10^9 up, else
\* as m/10^6 with suffix M from 10^6 up, else as the integer itself.
C9_MarketCapSuffix ==
    (info.k = "dict" /\ info.d["marketCap"] # None)
        => \A e \in Metrics("Market Cap") :
               CapAsClaimed(info.d["marketCap"], e.value)

\* The boundary 10^12 on the page, as $1.00T.
C9_Witness ==
    /\ outcome = "Success"
    /\ info.d["marketCap"] = Cap(1000000, 0)
    /\ \E e \in Metrics("Market Cap") :
           e.value = [fmt |-> "$.2f", cents |-> 100, suffix |-> "T"]

\* C10 as stated: when the NotFound or ProviderFailure message is on the
\* page, no part of the quote is.
C10_NoPartialResult ==
    outcome \in {"NotFound", "ProviderFailure"}
        => \A e \in Range(rendered) : e.el \in Chrome

====
